---- MODULE Spec2Model ----
(***************************************************************************)
(* Model of the Nissan-HUD survey viewer: the playback state machine and   *)
(* session loading of src/app/page.tsx (MultiCameraViewer) and the session *)
(* assembly of src/utils/dataLoader.ts (DataLoader).                       *)
(*                                                                         *)
(* Every event handler of the page is one action.  A handler's state       *)
(* updates, the re-render they cause and the effects of that render (the   *)
(* auto-play effect and the load-on-connected effect) belong to the same   *)
(* action.  An asynchronous function is split at its await: one action up  *)
(* to the first fetch, one action for the continuation.                    *)
(***************************************************************************)
EXTENDS Integers, Sequences, FiniteSets, TLC

(***************************************************************************)
(* Bounds of the model                                                     *)
(***************************************************************************)
MaxLoads == 3           \* loadSessionData calls started in one behaviour
MaxTimers == 2          \* interval ids the model can tell apart
MaxGps == 2             \* GPS rows of a "small" provider answer: at most MaxGps
MaxIndexArg == 3        \* handleIndexChange arguments: -1..MaxIndexArg
CapOvershoot == 1       \* a "long" GPS trace has up to 100 + CapOvershoot rows
StrideFactor == 3       \* a "very long" GPS trace has StrideFactor * 100 rows
MaxRawRows == 2         \* GPS rows whose raw fields an answer spells out
MaxSpeedQ == 128        \* fast-forward doubles the speed up to 32x (in quarters)

(***************************************************************************)
(* Program constants                                                       *)
(***************************************************************************)
MaxTimelinePoints == 100     \* Math.min(gpsData.length, 100)
SyntheticPoints == 50        \* for (let i = 0; i < 50; i++)
SampleSize == 3              \* slice(i % n, (i % n) + 3)
BasePeriodQ == 4000          \* 1000 ms, in quarter-speed units (see playbackSpeed)

Url8081 == "http://localhost:8081"
Url8082 == "http://localhost:8082"
Urls == {Url8081, Url8082}

NoSession == [none |-> TRUE]     \* sessionData === null
NoError == "null"                \* error === null
NoTimer == 0                     \* playbackIntervalRef.current === null
NoResult == [none |-> TRUE]

Min(a, b) == IF a <= b THEN a ELSE b
Max(a, b) == IF a >= b THEN a ELSE b

VARIABLES
  sessionData,          \* NoSession or the snapshot held by the page
  currentIndex,
  isPlaying,
  playbackSpeed,        \* in quarters: 1,2,4,8,16 stand for 0.25x .. 4x
  isLoading,
  error,
  serverUrl,            \* the page's serverUrl state
  loaderUrl,            \* DataLoader.serverUrl of the page's dataLoader
  serverStatus,
  refreshUrl,           \* serverUrl closed over by the memoized handleRefresh
  timers,               \* the intervals that are scheduled and not cleared
  playbackIntervalRef,  \* playbackIntervalRef.current: a timer id or NoTimer
  loads,                \* loadSessionData calls awaiting dataLoader.loadSession()
  nextLoadId,
  healthChecks,         \* checkServerHealth calls awaiting fetch(/health)
  lastOp,               \* history: the handler that ran last and its input
  resp,                 \* loader specification: the provider's answers
  result,               \* loader specification: what loadSession returned
  result2               \* loader specification: what a second loadSession returned

pageVars == <<sessionData, currentIndex, isPlaying, playbackSpeed, isLoading, error,
              serverUrl, loaderUrl, serverStatus, refreshUrl, timers,
              playbackIntervalRef, loads, nextLoadId, healthChecks, lastOp>>
loaderVars == <<resp, result, result2>>
vars == <<sessionData, currentIndex, isPlaying, playbackSpeed, isLoading, error,
          serverUrl, loaderUrl, serverStatus, refreshUrl, timers,
          playbackIntervalRef, loads, nextLoadId, healthChecks, lastOp,
          resp, result, result2>>

(***************************************************************************)
(* DataLoader (src/utils/dataLoader.ts).  The provider's answers to one    *)
(* loadSession() are a record rsp; every private method is an operator of  *)
(* it.  A fetch has one of four outcomes:                                  *)
(*   "ok"      2xx, success:true and the payload field present             *)
(*   "non2xx"  response.ok is false                                        *)
(*   "invalid" 2xx with success:false or without the payload field         *)
(*   "throws"  fetch() rejects                                             *)
(***************************************************************************)
FetchStatus == {"ok", "non2xx", "invalid", "throws"}

Triple(s, c, a) == [session |-> s, camera |-> c, anomalyType |-> a]
TF2Cam1 == Triple("F2", "cam1", "pothole")
TF1Cam1 == Triple("floMobility123_F1", "cam1", "pothole")
TF24k == Triple("F2", "4kcam", "crack")
Triples == {TF2Cam1, TF1Cam1, TF24k}

\* JavaScript values of a row's field: a number, a string that is not a number,
\* undefined (the field is absent), and NaN
Num(v) == [kind |-> "number", v |-> v]
Text == [kind |-> "string", v |-> 0]
Undefined == [kind |-> "undefined", v |-> 0]
NaN == [kind |-> "NaN", v |-> 0]

\* x || d
OrElse(x, d) ==
  IF x.kind \in {"undefined", "NaN"} \/ (x.kind = "number" /\ x.v = 0) THEN d ELSE x

ParseFloat(x) == IF x.kind = "number" THEN x ELSE NaN

\* A timestamp 'date time' is counted in 30 s steps from '2025-01-01 00:00:00':
\* its date is a number of days from 2025-01-01 and its time a number of steps
\* from 00:00:00.
DaySteps == 2880
DefaultDate == 0                 \* '2025-01-01'
DefaultTime == 0                 \* '00:00:00'

\* `${date} ${time}`
Stamp(date, time) == date * DaySteps + time

\* timestamp.split(' ')[0] and timestamp.split(' ')[1]
DateOf(timestamp) == timestamp \div DaySteps
TimeOf(timestamp) == timestamp % DaySteps

\* row k of a GPS answer: the answer spells out its first rows in raw, the rows
\* after them are well formed and in time order
RawRow(ans, k) ==
  IF k \in DOMAIN ans.raw THEN ans.raw[k]
  ELSE [timestamp |-> Num(k), date |-> Undefined, time |-> Undefined,
        latitude |-> Num(35), longitude |-> Num(139)]

TimestampUnguarded(row) ==
  IF row.timestamp.kind # "undefined" THEN row.timestamp.v
  ELSE IF row.date.kind # "undefined" /\ row.time.kind # "undefined"
  THEN Stamp(row.date.v, row.time.v)
  ELSE 0 - 1

\* row.timestamp || `${row.date || '2025-01-01'} ${row.time || '00:00:00'}`
Timestamp(row) ==
  IF row.timestamp.kind # "undefined" THEN row.timestamp.v
  ELSE Stamp(OrElse(row.date, Num(DefaultDate)).v, OrElse(row.time, Num(DefaultTime)).v)

\* point.timestamp ? point.timestamp.split(' ')[0] || '2025-01-01' : '2025-01-01'
DateOfPoint(row) ==
  IF row.timestamp.kind # "undefined" THEN DateOf(row.timestamp.v) ELSE DefaultDate

\* point.timestamp ? point.timestamp.split(' ')[1] || '00:00:00' : '00:00:00'
TimeOfPoint(row) ==
  IF row.timestamp.kind # "undefined" THEN TimeOf(row.timestamp.v) ELSE DefaultTime

\* result.data.map(...) of /api/gps-data/combined
CombinedPoint(row, k, source) ==
  [recordIndex |-> k - 1, source |-> source,
   timestamp |-> Timestamp(row),
   time |-> TimeOfPoint(row),
   date |-> DateOfPoint(row),
   latitude |-> ParseFloat(OrElse(row.latitude, Num(0))),
   longitude |-> ParseFloat(OrElse(row.longitude, Num(0)))]

\* result.data.map(...) of /api/gps-data
LogRow(row, k) ==
  [recordIndex |-> k - 1, source |-> "gps_log.csv",
   timestamp |-> Timestamp(row),
   time |-> OrElse(row.time, Num(DefaultTime)).v,
   date |-> OrElse(row.date, Num(DefaultDate)).v,
   latitude |-> ParseFloat(OrElse(row.latitude, Num(0))),
   longitude |-> ParseFloat(OrElse(row.longitude, Num(0)))]

\* result.data.map(...) of /api/gps-data/metadata
MetadataPoint(row, k) ==
  [recordIndex |-> k - 1, source |-> "metadata.csv",
   timestamp |-> Timestamp(row),
   time |-> TimeOfPoint(row),
   date |-> DateOfPoint(row),
   latitude |-> row.latitude,
   longitude |-> row.longitude]

\* 2025-01-01T10:00:00Z
SyntheticBaseTime == 1200

\* one fix every 30 s around (35.2838, 139.6544); Math.random() moves a fix by
\* less than 0.005 degrees
GenerateSyntheticGPSData ==
  [k \in 1..SyntheticPoints |->
     [recordIndex |-> k - 1, source |-> "synthetic",
      timestamp |-> SyntheticBaseTime + (k - 1),
      date |-> DateOf(SyntheticBaseTime + (k - 1)),
      time |-> TimeOf(SyntheticBaseTime + (k - 1)),
      latitude |-> Num(35), longitude |-> Num(139)]]

LoadFallbackGPSData(rsp) ==
  IF rsp.gpsLog.status = "ok"
  THEN [k \in 1..rsp.gpsLog.n |-> LogRow(RawRow(rsp.gpsLog, k), k)]
  ELSE IF rsp.gpsMeta.status = "ok"
  THEN [k \in 1..rsp.gpsMeta.n |-> MetadataPoint(RawRow(rsp.gpsMeta, k), k)]
  ELSE GenerateSyntheticGPSData

LoadCombinedGPSData(rsp) ==
  IF rsp.gpsCombined.status = "ok"
  THEN [k \in 1..rsp.gpsCombined.n |->
          CombinedPoint(RawRow(rsp.gpsCombined, k), k, rsp.gpsCombined.source)]
  ELSE LoadFallbackGPSData(rsp)

\* result.data.map(...) of /api/system-metrics
MetricsRow(row, k) ==
  [sample |-> k,
   timestamp |-> Timestamp(row),
   time |-> OrElse(row.time, Num(DefaultTime)).v,
   date |-> OrElse(row.date, Num(DefaultDate)).v]

LoadSystemMetrics(rsp) ==
  IF rsp.metrics.status = "ok"
  THEN [k \in 1..rsp.metrics.n |-> MetricsRow(RawRow(rsp.metrics, k), k)]
  ELSE <<>>

\* loadMetadataFiles rethrows: threw = TRUE stands for the rejected promise
LoadMetadataFilesSwallow(rsp) ==
  [threw |-> FALSE, files |-> IF rsp.scan.status = "ok" THEN rsp.scan.files ELSE <<>>]

LoadMetadataFiles(rsp) ==
  IF rsp.scan.status = "ok"
  THEN [threw |-> FALSE, files |-> rsp.scan.files]
  ELSE [threw |-> TRUE, files |-> <<>>]

GetStreamIdForCamera(cameraName, session) ==
  IF session = "F2" /\ cameraName = "4kcam" THEN 100
  ELSE IF session = "F2" /\ cameraName = "cam1" THEN 50
  ELSE IF session = "floMobility123_F1" /\ cameraName = "argus0" THEN 10
  ELSE IF session = "floMobility123_F1" /\ cameraName = "argus1" THEN 20
  ELSE IF session = "floMobility123_F1" /\ cameraName = "cam1" THEN 30
  ELSE 1

\* Array.prototype.slice(start, end) on a 1-based sequence
Slice(seq, start, end) == SubSeq(seq, start + 1, Min(end, Len(seq)))

\* cameraMap of buildEnhancedCameraInfo: one entry per camera_session key,
\* in the order of first appearance in the manifest
RECURSIVE BuildEnhancedCameraInfo(_)
BuildEnhancedCameraInfo(files) ==
  IF files = <<>> THEN <<>>
  ELSE LET rest == BuildEnhancedCameraInfo(SubSeq(files, 1, Len(files) - 1))
           f == files[Len(files)]
           hit == {j \in 1..Len(rest) : rest[j].name = f.camera /\ rest[j].session = f.session}
       IN IF hit = {}
          THEN Append(rest, [name |-> f.camera, session |-> f.session,
                             classes |-> {f.anomalyType}, detectionCount |-> 0])
          ELSE [j \in 1..Len(rest) |->
                  IF j \in hit THEN [rest[j] EXCEPT !.classes = @ \cup {f.anomalyType}]
                  ELSE rest[j]]

\* the answer of /api/metadata-with-images/<triple> fetched while frame i is
\* built: every frame fetches it anew, and the fetches of the frames in
\* rsp.outage are rejected
TripleAnswer(rsp, t, i) ==
  IF i \in rsp.outage
  THEN [status |-> "throws", nImages |-> 0, nDetections |-> 0, hasConfidence |-> TRUE]
  ELSE rsp.triple[t]

ImagesData(t, n) == [k \in 1..n |-> [triple |-> t, index |-> k - 1]]

SampleImagesWrap(t, n, i) ==
  [x \in 1..Min(SampleSize, n) |-> ImagesData(t, n)[(((i % n) + x - 1) % n) + 1]]

\* metadataData.images.data.slice(i % length, (i % length) + 3)
SampleImages(t, n, i) == Slice(ImagesData(t, n), i % n, (i % n) + SampleSize)

\* `${this.serverUrl}${image.url}`
FullPath(image) == [base |-> "serverUrl", image |-> image]

SampleDetections(n, i) ==
  Slice([k \in 1..n |-> k - 1], i % Max(n, 1), (i % Max(n, 1)) + Min(SampleSize, n))

\* the values Math.random() returns during one loadSession()
Draws == {0, 1}

\* a detection row with its confidence keeps it; without, the default is drawn
\* with Math.random() (left, top, width and height follow the same pattern)
EnhancedDetections(t, r, i, rnd) ==
  LET rows == SampleDetections(r.nDetections, i)
  IN [x \in 1..Len(rows) |->
        [triple |-> t, row |-> rows[x],
         streamId |-> GetStreamIdForCamera(t.camera, t.session),
         className |-> t.anomalyType,
         confidence |-> IF r.hasConfidence THEN [from |-> "row", v |-> 0]
                        ELSE [from |-> "Math.random", v |-> rnd]]]

\* one iteration of "for (const metadataFile of metadataFiles)": try { ... } catch
AttachFile(entry, t, r, i, rnd) ==
  IF r.status # "ok" THEN entry
  ELSE LET key == <<t.camera, t.anomalyType>>
           init == IF key \in DOMAIN entry.images THEN entry.images
                   ELSE [x \in DOMAIN entry.images \cup {key} |->
                           IF x = key THEN <<>> ELSE entry.images[x]]
           imgs == IF r.nImages > 0
                   THEN [init EXCEPT ![key] = @ \o SampleImages(t, r.nImages, i)]
                   ELSE init
           initPaths == IF key \in DOMAIN entry.fullPaths THEN entry.fullPaths
                        ELSE [x \in DOMAIN entry.fullPaths \cup {key} |->
                                IF x = key THEN <<>> ELSE entry.fullPaths[x]]
           sample == SampleImages(t, r.nImages, i)
           paths == IF r.nImages > 0
                    THEN [initPaths EXCEPT ![key] =
                            @ \o [x \in 1..Len(sample) |-> FullPath(sample[x])]]
                    ELSE initPaths
           dets == IF r.nDetections > 0
                   THEN entry.detections \o EnhancedDetections(t, r, i, rnd)
                   ELSE entry.detections
       IN [entry EXCEPT !.images = imgs, !.fullPaths = paths, !.detections = dets]

RECURSIVE AttachFiles(_, _, _, _, _)
AttachFiles(entry, files, rsp, i, rnd) ==
  IF files = <<>> THEN entry
  ELSE AttachFiles(AttachFile(entry, Head(files), TripleAnswer(rsp, Head(files), i),
                              i, rnd),
                   Tail(files), rsp, i, rnd)

\* 60000 ms in 30 s steps
NearbyWindow == 2

\* nearbyGPS.map(...): the fixes within one minute of gpsPoint
GpsPoints(gpsData, gpsPoint) ==
  LET nearbyGPS == SelectSeq(gpsData, LAMBDA point :
                     point.timestamp - gpsPoint.timestamp \in
                       (0 - NearbyWindow)..NearbyWindow)
  IN [x \in 1..Len(nearbyGPS) |->
        [recordIndex |-> nearbyGPS[x].recordIndex,
         source |-> IF nearbyGPS[x].source = "gps_log.csv" THEN "gps_log.csv"
                    ELSE "metadata.csv"]]

\* timelineEntry for gpsData[i], i counted from 0 as in the source
TimelineEntry(gpsData, files, rsp, i, rnd) ==
  AttachFiles([gps |-> gpsData[i + 1].recordIndex,
               timestamp |-> gpsData[i + 1].timestamp,
               date |-> gpsData[i + 1].date,
               time |-> gpsData[i + 1].time,
               latitude |-> gpsData[i + 1].latitude,
               longitude |-> gpsData[i + 1].longitude,
               gpsPoints |-> GpsPoints(gpsData, gpsData[i + 1]),
               detections |-> <<>>,
               images |-> [x \in {} |-> <<>>],
               fullPaths |-> [x \in {} |-> <<>>]],
              files, rsp, i, rnd)

UncappedTimelinePoints(gpsData) == Len(gpsData)

\* const maxTimelinePoints = Math.min(gpsData.length, 100)
TimelinePointCount(gpsData) == Min(Len(gpsData), MaxTimelinePoints)

CreateEnhancedTimeline(gpsData, files, rsp, rnd) ==
  [k \in 1..TimelinePointCount(gpsData) |->
     TimelineEntry(gpsData, files, rsp, k - 1, rnd)]

\* gpsStats.totalPoints and gpsStats.sources: one entry per source key
CalculateGPSStats(gpsData) ==
  LET keys == {gpsData[k].source : k \in 1..Len(gpsData)}
  IN [totalPoints |-> Len(gpsData),
      sources |-> { [source |-> key,
                     count |-> Cardinality({k \in 1..Len(gpsData) :
                                              gpsData[k].source = key}),
                     type |-> IF key = "gps_log.csv" THEN "GPS tracking log"
                              ELSE IF key = "metadata.csv"
                              THEN "Anomaly detection metadata"
                              ELSE "Unknown"] : key \in keys }]

\* the dashboard answer is only tested with response.ok; fetch() may also reject
DashboardFatal(rsp) == rsp.dashboard \in {"non2xx", "throws"}

\* loadSession(): threw = TRUE stands for the rejected promise, cause names the
\* fetch that made it reject
LoadSession(rsp, url, rnd) ==
  IF DashboardFatal(rsp) THEN [threw |-> TRUE, cause |-> "dashboard"]
  ELSE LET gpsData == LoadCombinedGPSData(rsp)
           systemMetrics == LoadSystemMetrics(rsp)
           scan == LoadMetadataFiles(rsp)
       IN IF scan.threw THEN [threw |-> TRUE, cause |-> "manifest"]
          ELSE [threw |-> FALSE,
                sessionPath |-> url,
                cameras |-> BuildEnhancedCameraInfo(scan.files),
                timeline |-> CreateEnhancedTimeline(gpsData, scan.files, rsp, rnd),
                gpsData |-> gpsData,
                systemMetrics |-> systemMetrics,
                gpsStats |-> CalculateGPSStats(gpsData)]


(***************************************************************************)
(* MultiCameraViewer (src/app/page.tsx)                                    *)
(***************************************************************************)
Speeds == {1, 2, 4, 8, 16}       \* SelectItem 0.25, 0.5, 1, 2, 4 in quarters
CustomUrls == Urls \cup {""}     \* what the Connect buttons can pass
IndexArgs == (0 - 1)..MaxIndexArg

\* what the page reads of a SessionData: its origin and timeline.length; loadId
\* is the identity of the object (every load builds a new one)
Snapshot(r, id) ==
  [sessionPath |-> r.sessionPath, timelineLength |-> Len(r.timeline), loadId |-> id]

\* which of the page's render branches is on screen
View ==
  IF serverStatus = "disconnected" THEN "disconnected"
  ELSE IF isLoading \/ serverStatus = "checking" THEN "loading"
  ELSE IF error # NoError THEN "error"
  ELSE IF sessionData = NoSession
          \/ ~(currentIndex \in 0..(sessionData.timelineLength - 1)) THEN "nodata"
  ELSE "main"

FreshTimerId(tm) ==
  LET used == {t.id : t \in tm}
      free == (1..MaxTimers) \ used
  IN IF free = {} THEN MaxTimers ELSE CHOOSE i \in free : \A j \in free : i <= j

AutoPlayCleanupMissing(tm, ref) == [timers |-> tm, ref |-> ref]

\* the function returned by the auto-play effect
AutoPlayCleanup(tm, ref) ==
  IF ref # NoTimer THEN [timers |-> {t \in tm : t.id # ref}, ref |-> NoTimer]
  ELSE [timers |-> tm, ref |-> ref]

\* the body of the auto-play effect
AutoPlayBody(isP, speed, sd, tm, ref) ==
  IF isP /\ sd # NoSession
  THEN LET id == FreshTimerId(tm)
       IN [timers |-> tm \cup {[id |-> id, interval |-> BasePeriodQ \div speed,
                                timelineLength |-> sd.timelineLength,
                                loadId |-> sd.loadId]},
           ref |-> id]
  ELSE AutoPlayCleanup(tm, ref)

\* React runs the previous cleanup and then the body when a dependency changed
AutoPlayEffect(isP, speed, sd, tm, ref) ==
  LET c == AutoPlayCleanup(tm, ref)
  IN AutoPlayBody(isP, speed, sd, c.timers, c.ref)

\* the render after a handler: the auto-play effect runs iff one of
\* [isPlaying, playbackSpeed, sessionData] changed
Commit ==
  LET changed == <<isPlaying', playbackSpeed', sessionData'>>
                   # <<isPlaying, playbackSpeed, sessionData>>
      e == AutoPlayEffect(isPlaying', playbackSpeed', sessionData', timers,
                          playbackIntervalRef)
  IN /\ timers' = IF changed THEN e.timers ELSE timers
     /\ playbackIntervalRef' = IF changed THEN e.ref ELSE playbackIntervalRef
     \* handleRefresh is memoized on [serverStatus]
     /\ refreshUrl' = IF serverStatus' # serverStatus THEN serverUrl' ELSE refreshUrl

TickIndexWraps(prev, len) == IF prev >= len - 1 THEN 0 ELSE prev + 1

\* the updater passed to setCurrentIndex by the interval callback
TickIndex(prev, len) == IF prev >= len - 1 THEN prev ELSE prev + 1

TickStopsNever(prev, len) == FALSE

\* the condition under which the updater calls setIsPlaying(false)
TickStops(prev, len) == prev >= len - 1

IndexChangeUnguarded(sd, newIndex) == sd # NoSession

\* the condition of handleIndexChange
IndexChangeAccepted(sd, newIndex) ==
  sd # NoSession /\ newIndex >= 0 /\ newIndex < sd.timelineLength

\* lastOp: the handler that ran, its argument and its outcome; scan is the
\* answer a completed load got from /api/metadata/scan ("" when not fetched)
Op(name, arg, cause) == [name |-> name, arg |-> arg, cause |-> cause, scan |-> ""]

\* loadSessionData up to "await dataLoader.loadSession()"
StartLoad(customUrl) ==
  /\ nextLoadId <= MaxLoads
  /\ isLoading' = TRUE
  /\ error' = NoError
  /\ serverUrl' = IF customUrl # "" THEN customUrl ELSE serverUrl
  /\ loaderUrl' = IF customUrl # "" THEN customUrl ELSE loaderUrl
  /\ loads' = loads \cup {[id |-> nextLoadId]}
  /\ nextLoadId' = nextLoadId + 1

\* checkServerHealth up to "await fetch(`${serverUrl}/health`)"
StartHealthCheck(url) ==
  healthChecks' = healthChecks \cup {[url |-> url]}

HandlePlayPause ==
  /\ View = "main"
  /\ isPlaying' = ~isPlaying
  /\ lastOp' = Op("handlePlayPause", 0, "")
  /\ UNCHANGED <<sessionData, currentIndex, playbackSpeed, isLoading, error, serverUrl,
                 loaderUrl, serverStatus, loads, nextLoadId, healthChecks>>
  /\ Commit
  /\ UNCHANGED loaderVars

SetIndexPauses(newIndex) ==
  /\ currentIndex' = IF IndexChangeAccepted(sessionData, newIndex) THEN newIndex
                     ELSE currentIndex
  /\ isPlaying' = FALSE
  /\ lastOp' = Op("handleIndexChange", newIndex, "")
  /\ UNCHANGED <<sessionData, playbackSpeed, isLoading, error, serverUrl,
                 loaderUrl, serverStatus, loads, nextLoadId, healthChecks>>
  /\ Commit
  /\ UNCHANGED loaderVars

\* handleIndexChange(newIndex), the onIndexChange of the control panels
SetIndex(newIndex) ==
  /\ currentIndex' = IF IndexChangeAccepted(sessionData, newIndex) THEN newIndex
                     ELSE currentIndex
  /\ lastOp' = Op("handleIndexChange", newIndex, "")
  /\ UNCHANGED <<sessionData, isPlaying, playbackSpeed, isLoading, error, serverUrl,
                 loaderUrl, serverStatus, loads, nextLoadId, healthChecks>>
  /\ Commit
  /\ UNCHANGED loaderVars

HandleIndexChange ==
  /\ View = "main"
  /\ \E newIndex \in IndexArgs : SetIndex(newIndex)

HandlePrevious ==
  /\ View = "main"
  /\ currentIndex # 0
  /\ SetIndex(Max(0, currentIndex - 1))

HandleNext ==
  /\ View = "main"
  /\ currentIndex # sessionData.timelineLength - 1
  /\ SetIndex(Min(sessionData.timelineLength - 1, currentIndex + 1))

HandleJumpToStart ==
  /\ View = "main"
  /\ SetIndex(0)

HandleJumpToEnd ==
  /\ View = "main"
  /\ SetIndex(sessionData.timelineLength - 1)

\* the range input: min 0, max totalFrames - 1
HandleScrub ==
  /\ View = "main"
  /\ \E i \in 0..(sessionData.timelineLength - 1) : SetIndex(i)

\* handleTimeJump: closestIndex is 0 or the index of the frame whose time is
\* nearest to the time typed in
HandleTimeJump ==
  /\ View = "main"
  /\ \E closestIndex \in 0..(sessionData.timelineLength - 1) :
       SetIndex(closestIndex)

HandleSpeedChange ==
  /\ View = "main"
  /\ \E speed \in Speeds :
       /\ playbackSpeed' = speed
       /\ lastOp' = Op("handleSpeedChange", speed, "")
  /\ UNCHANGED <<sessionData, currentIndex, isPlaying, isLoading, error, serverUrl,
                 loaderUrl, serverStatus, loads, nextLoadId, healthChecks>>
  /\ Commit
  /\ UNCHANGED loaderVars

\* the interval callback of timer t
Tick ==
  \E t \in timers :
    /\ currentIndex' = TickIndex(currentIndex, t.timelineLength)
    /\ isPlaying' = IF TickStops(currentIndex, t.timelineLength) THEN FALSE ELSE isPlaying
    /\ lastOp' = Op("tick", 0, "")
    /\ UNCHANGED <<sessionData, playbackSpeed, isLoading, error, serverUrl, loaderUrl,
                   serverStatus, loads, nextLoadId, healthChecks>>
    /\ Commit
    /\ UNCHANGED loaderVars

HandleLoadSession ==
  /\ View = "main"
  /\ \E url \in CustomUrls :
       /\ StartLoad(url)
       /\ lastOp' = Op("handleLoadSession", 0, url)
  /\ UNCHANGED <<sessionData, currentIndex, isPlaying, playbackSpeed, serverStatus,
                 healthChecks>>
  /\ Commit
  /\ UNCHANGED loaderVars

\* handleRefresh: checkServerHealth() and, the status being 'connected' in every
\* view that offers the button, loadSessionData()
HandleRefresh ==
  /\ View \in {"main", "error", "nodata"}
  /\ StartHealthCheck(refreshUrl)
  /\ serverStatus' = "checking"
  /\ IF serverStatus = "connected"
     THEN StartLoad("")
     ELSE UNCHANGED <<isLoading, error, serverUrl, loaderUrl, loads, nextLoadId>>
  /\ lastOp' = Op("handleRefresh", 0, "")
  /\ UNCHANGED <<sessionData, currentIndex, isPlaying, playbackSpeed>>
  /\ Commit
  /\ UNCHANGED loaderVars

RetryConnection ==
  /\ View = "disconnected"
  /\ StartHealthCheck(serverUrl)
  /\ serverStatus' = "checking"
  /\ lastOp' = Op("retryConnection", 0, "")
  /\ UNCHANGED <<sessionData, currentIndex, isPlaying, playbackSpeed, isLoading, error,
                 serverUrl, loaderUrl, loads, nextLoadId>>
  /\ Commit
  /\ UNCHANGED loaderVars

TryPort8082 ==
  /\ View = "disconnected"
  /\ serverUrl' = Url8082
  /\ lastOp' = Op("tryPort8082", 0, "")
  /\ UNCHANGED <<sessionData, currentIndex, isPlaying, playbackSpeed, isLoading, error,
                 loaderUrl, serverStatus, loads, nextLoadId, healthChecks>>
  /\ Commit
  /\ UNCHANGED loaderVars

ContinueAnyway ==
  /\ View = "error"
  /\ error' = NoError
  /\ lastOp' = Op("continueAnyway", 0, "")
  /\ UNCHANGED <<sessionData, currentIndex, isPlaying, playbackSpeed, isLoading,
                 serverUrl, loaderUrl, serverStatus, loads, nextLoadId, healthChecks>>
  /\ Commit
  /\ UNCHANGED loaderVars

\* checkServerHealth after the await; a status that becomes 'connected' makes
\* the load-on-connected effect call loadSessionData()
HealthDone ==
  \E h \in healthChecks : \E outcome \in {"ok", "non2xx", "throws"} :
    /\ healthChecks' = healthChecks \ {h}
    /\ IF outcome = "ok"
       THEN /\ serverStatus' = "connected"
            /\ IF serverStatus # "connected"
               THEN StartLoad("")
               ELSE UNCHANGED <<isLoading, error, serverUrl, loaderUrl, loads, nextLoadId>>
       ELSE /\ serverStatus' = "disconnected"
            /\ error' = IF outcome = "non2xx" THEN "Server is not responding properly"
                        ELSE "Cannot connect to surveillance server"
            /\ UNCHANGED <<isLoading, serverUrl, loaderUrl, loads, nextLoadId>>
    /\ lastOp' = Op("healthDone", 0, outcome)
    /\ UNCHANGED <<sessionData, currentIndex, isPlaying, playbackSpeed>>
    /\ Commit
    /\ UNCHANGED loaderVars


NoTripleAnswer ==
  [status |-> "non2xx", nImages |-> 0, nDetections |-> 0, hasConfidence |-> TRUE]

PageResponse(d, sc, gc, g) ==
  [dashboard |-> d,
   gpsCombined |-> [status |-> gc, n |-> g, source |-> "gps_log.csv", raw |-> <<>>],
   gpsLog |-> [status |-> "ok", n |-> g, raw |-> <<>>],
   gpsMeta |-> [status |-> "non2xx", n |-> 0, raw |-> <<>>],
   metrics |-> [status |-> "ok", n |-> 0, raw |-> <<>>],
   scan |-> [status |-> sc, files |-> <<>>],
   triple |-> [t \in Triples |-> NoTripleAnswer],
   outage |-> {}]

\* the provider answers a load of the page can meet: the dashboard fails (and
\* nothing else is fetched), or the manifest scan fails, or both succeed and
\* the GPS rows (none, one or MaxGps of them) come from the combined endpoint
\* or, when that fails, from the track log
PageResponses ==
  {PageResponse("non2xx", "ok", "ok", 1)}
    \cup {PageResponse("ok", sc, "ok", 1) : sc \in FetchStatus \ {"ok"}}
    \cup {PageResponse("ok", "ok", gc, g) :
            gc \in {"ok", "non2xx"}, g \in {0, 1, MaxGps}}

LoadInstallsAlways(r) == ~r.threw

\* loadSessionData reaches setSessionData(data)
LoadInstalls(r) == ~r.threw /\ Len(r.timeline) # 0

LoadError(r) ==
  IF r.threw THEN (IF r.cause = "dashboard" THEN "Dashboard API failed"
                   ELSE "Metadata scan failed")
  ELSE "No timeline data found"

LoadCause(r) ==
  IF r.threw THEN r.cause ELSE IF Len(r.timeline) = 0 THEN "empty" ELSE "installed"

\* what dataLoader.loadSession() returns to the page for each answer of the
\* provider and each base URL; the manifests of PageResponses are empty, so
\* Math.random() is not called and the draw is immaterial
PageLoads == [rsp \in PageResponses, url \in Urls |-> LoadSession(rsp, url, 0)]

\* loadSessionData after "await dataLoader.loadSession()"
CompleteLoad ==
  \E l \in loads : \E rsp \in PageResponses :
    LET r == PageLoads[rsp, loaderUrl]
    IN /\ loads' = loads \ {l}
       /\ IF LoadInstalls(r)
          THEN /\ sessionData' = Snapshot(r, l.id)
               /\ currentIndex' = 0
               /\ UNCHANGED error
          ELSE /\ error' = LoadError(r)
               /\ UNCHANGED <<sessionData, currentIndex>>
       /\ isLoading' = FALSE
       /\ lastOp' = [Op("completeLoad", 0, LoadCause(r))
                        EXCEPT !.scan = IF DashboardFatal(rsp) THEN ""
                                        ELSE rsp.scan.status]
       /\ UNCHANGED <<isPlaying, playbackSpeed, serverUrl, loaderUrl, serverStatus,
                      nextLoadId, healthChecks>>
       /\ Commit
       /\ UNCHANGED loaderVars

\* the state after the first render and its mount effects: checkServerHealth()
\* is awaiting its fetch
PageInit ==
  /\ sessionData = NoSession
  /\ currentIndex = 0
  /\ isPlaying = FALSE
  /\ playbackSpeed = 4
  /\ isLoading = TRUE
  /\ error = NoError
  /\ serverUrl = Url8081
  /\ loaderUrl = Url8081
  /\ serverStatus = "checking"
  /\ refreshUrl = Url8081
  /\ timers = {}
  /\ playbackIntervalRef = NoTimer
  /\ loads = {}
  /\ nextLoadId = 1
  /\ healthChecks = {[url |-> Url8081]}
  /\ lastOp = Op("mount", 0, "")

Init ==
  /\ PageInit
  /\ resp = NoResult
  /\ result = NoResult
  /\ result2 = NoResult

Next ==
  \/ HandlePlayPause
  \/ HandleIndexChange
  \/ HandlePrevious
  \/ HandleNext
  \/ HandleJumpToStart
  \/ HandleJumpToEnd
  \/ HandleScrub
  \/ HandleTimeJump
  \/ HandleSpeedChange
  \/ Tick
  \/ HandleLoadSession
  \/ HandleRefresh
  \/ RetryConnection
  \/ TryPort8082
  \/ ContinueAnyway
  \/ HealthDone
  \/ CompleteLoad

Spec == Init /\ [][Next]_vars


(***************************************************************************)
(* Playback under both speed controls: the selector of ControlPanel and    *)
(* the fast-forward button of GPSControlPanel, whose onSpeedChange is the  *)
(* page's handleSpeedChange.                                               *)
(***************************************************************************)
\* onClick={() => onSpeedChange(playbackSpeed * 2)}
HandleFastForward ==
  /\ View = "main"
  /\ playbackSpeed * 2 <= MaxSpeedQ
  /\ playbackSpeed' = playbackSpeed * 2
  /\ lastOp' = Op("handleSpeedChange", playbackSpeed * 2, "fastForward")
  /\ UNCHANGED <<sessionData, currentIndex, isPlaying, isLoading, error, serverUrl,
                 loaderUrl, serverStatus, loads, nextLoadId, healthChecks>>
  /\ Commit
  /\ UNCHANGED loaderVars

PanelNext ==
  \/ HandlePlayPause
  \/ HandlePrevious
  \/ HandleNext
  \/ HandleSpeedChange
  \/ HandleFastForward
  \/ Tick
  \/ RetryConnection
  \/ HealthDone
  \/ CompleteLoad

PanelSpec == Init /\ [][PanelNext]_vars


(***************************************************************************)
(* Playback left to itself: once the page is Playing on a non-empty        *)
(* timeline, and from the first tick on, nothing but the interval callback *)
(* runs: no handler is called and no load or health check completes.       *)
(* setInterval keeps calling the callback until clearInterval.             *)
(***************************************************************************)
Playing ==
  /\ isPlaying
  /\ sessionData # NoSession
  /\ sessionData.timelineLength > 0

Undisturbed == Playing \/ lastOp.name = "tick"

QuietNext ==
  \/ Tick
  \/ ~Undisturbed /\ HandlePlayPause
  \/ ~Undisturbed /\ HandleIndexChange
  \/ ~Undisturbed /\ HandlePrevious
  \/ ~Undisturbed /\ HandleNext
  \/ ~Undisturbed /\ HandleJumpToStart
  \/ ~Undisturbed /\ HandleJumpToEnd
  \/ ~Undisturbed /\ HandleScrub
  \/ ~Undisturbed /\ HandleTimeJump
  \/ ~Undisturbed /\ HandleSpeedChange
  \/ ~Undisturbed /\ HandleLoadSession
  \/ ~Undisturbed /\ HandleRefresh
  \/ ~Undisturbed /\ RetryConnection
  \/ ~Undisturbed /\ TryPort8082
  \/ ~Undisturbed /\ ContinueAnyway
  \/ ~Undisturbed /\ HealthDone
  \/ ~Undisturbed /\ CompleteLoad

QuietSpec == Init /\ [][QuietNext]_vars /\ WF_vars(Tick)


(***************************************************************************)
(* DataLoader.loadSession() on its own: the provider's answers are drawn   *)
(* in the initial state and loadSession is applied to them.                *)
(***************************************************************************)
OkAnswer(nImages, nDetections) ==
  [status |-> "ok", nImages |-> nImages, nDetections |-> nDetections,
   hasConfidence |-> TRUE]

FailedAnswer(status) ==
  [status |-> status, nImages |-> 0, nDetections |-> 0, hasConfidence |-> TRUE]

TripleAnswers ==
  {OkAnswer(i, d) : i \in {0, 2, 4}, d \in {0, 2}}
    \cup {FailedAnswer(st) : st \in FetchStatus \ {"ok"}}

AllFiles == <<TF2Cam1, TF1Cam1, TF24k>>

\* the manifests: the sub-lists of AllFiles
Manifests ==
  { SelectSeq(AllFiles, LAMBDA t : t \in S) : S \in SUBSET Triples }

DefaultResponse ==
  [dashboard |-> "ok",
   gpsCombined |-> [status |-> "ok", n |-> 2, source |-> "gps_log.csv", raw |-> <<>>],
   gpsLog |-> [status |-> "ok", n |-> 2, raw |-> <<>>],
   gpsMeta |-> [status |-> "ok", n |-> 1, raw |-> <<>>],
   metrics |-> [status |-> "ok", n |-> 1, raw |-> <<>>],
   scan |-> [status |-> "ok", files |-> AllFiles],
   triple |-> [t \in Triples |-> OkAnswer(4, 2)],
   outage |-> {}]

\* every endpoint but the per-triple one, in each of its outcomes
EndpointResponses ==
  { [DefaultResponse EXCEPT !.dashboard = d, !.gpsCombined.status = g,
                            !.metrics.status = m, !.scan.status = sc] :
    d \in FetchStatus, g \in FetchStatus, m \in FetchStatus, sc \in FetchStatus }

\* the GPS sources and their row counts
GpsResponses ==
  { [DefaultResponse EXCEPT !.gpsCombined.status = g, !.gpsCombined.n = n,
                            !.gpsLog.status = gl, !.gpsLog.n = n,
                            !.gpsMeta.status = gm] :
    g \in {"ok", "non2xx"}, gl \in {"ok", "throws"}, gm \in {"ok", "invalid"},
    n \in 0..MaxGps }

\* every manifest with every outcome of its triples' fetches
TripleResponses ==
  { [DefaultResponse EXCEPT !.gpsCombined.n = n, !.scan.files = files, !.triple = tr] :
    n \in 1..MaxGps, files \in Manifests, tr \in [Triples -> TripleAnswers] }

\* GPS traces around the frame cap
LongResponses ==
  { [DefaultResponse EXCEPT !.gpsCombined.n = n, !.scan.files = files] :
    n \in (MaxTimelinePoints - 1)..(MaxTimelinePoints + CapOvershoot),
    files \in {<<>>, <<TF24k>>} }

\* a GPS trace several times as long as the frame cap
VeryLongResponses ==
  { [DefaultResponse EXCEPT !.gpsCombined.n = StrideFactor * MaxTimelinePoints,
                            !.scan.files = <<>>] }

\* the shapes of a raw GPS row: in or out of time order, coordinates that are
\* numbers in range, numbers out of range, absent, or not numbers
RawRows ==
  [timestamp : {Num(1), Num(2)}, date : {Undefined}, time : {Undefined},
   latitude : {Num(35)}, longitude : {Num(139)}]
    \cup [timestamp : {Num(1)}, date : {Undefined}, time : {Undefined},
          latitude : {Num(35), Num(999), Undefined, Text},
          longitude : {Num(139), Undefined}]

GpsPaths == {"combined", "log", "metadata"}

\* the GPS endpoint of path answers the rows raw, the endpoints tried before
\* it fail
RowResponse(path, raw) ==
  [DefaultResponse EXCEPT
     !.gpsCombined = [status |-> IF path = "combined" THEN "ok" ELSE "non2xx",
                      n |-> Len(raw), source |-> "gps_log.csv", raw |-> raw],
     !.gpsLog = [status |-> IF path = "log" THEN "ok" ELSE "throws",
                 n |-> Len(raw), raw |-> raw],
     !.gpsMeta = [status |-> "ok", n |-> Len(raw), raw |-> raw],
     !.scan.files = <<>>]

RowResponses ==
  { RowResponse(path, raw) : path \in GpsPaths, raw \in [1..MaxRawRows -> RawRows] }

\* the shapes of a row's time fields: a combined timestamp or none, a date
\* field or none, a time field or none
StampRows ==
  [timestamp : {Num(Stamp(1, 3)), Undefined}, date : {Num(1), Undefined},
   time : {Num(3), Undefined},
   latitude : {Num(35)}, longitude : {Num(139)}]

StampResponses ==
  { RowResponse(path, raw) : path \in GpsPaths, raw \in [1..MaxRawRows -> StampRows] }

MetricsResponses ==
  { [DefaultResponse EXCEPT !.metrics.n = MaxRawRows, !.metrics.raw = raw,
                            !.scan.files = <<>>] :
    raw \in [1..MaxRawRows -> StampRows] }

\* detection rows with and without their confidence field
DetectionResponses ==
  { [DefaultResponse EXCEPT
       !.gpsCombined.n = n, !.scan.files = <<TF2Cam1>>,
       !.triple[TF2Cam1] = [OkAnswer(2, d) EXCEPT !.hasConfidence = c]] :
    n \in 1..MaxGps, d \in 1..2, c \in BOOLEAN }

\* the per-triple endpoint is down while some of the frames are built
OutageResponses ==
  { [DefaultResponse EXCEPT !.gpsCombined.n = MaxGps, !.scan.files = files,
                            !.outage = frames] :
    files \in {<<TF2Cam1>>, <<TF2Cam1, TF24k>>}, frames \in SUBSET (0..(MaxGps - 1)) }

\* manifests with cameras and sessions beyond the F2 pair: argus0 of
\* floMobility123_F1 and a 4kcam directory under floMobility123_F1
TF1Argus0 == Triple("floMobility123_F1", "argus0", "pothole")
TF14k == Triple("floMobility123_F1", "4kcam", "crack")
StreamTriples == {TF2Cam1, TF24k, TF1Argus0, TF14k}

StreamResponses ==
  { [DefaultResponse EXCEPT
       !.gpsCombined.n = n,
       !.scan.files = SelectSeq(<<TF2Cam1, TF24k, TF1Argus0, TF14k>>, LAMBDA t : t \in S),
       !.triple = [t \in Triples \cup StreamTriples |-> OkAnswer(2, 1)]] :
    n \in 1..MaxGps, S \in SUBSET StreamTriples }

LoaderResponses ==
  EndpointResponses \cup GpsResponses \cup TripleResponses \cup LongResponses
    \cup VeryLongResponses \cup RowResponses \cup DetectionResponses
    \cup OutageResponses \cup StampResponses \cup MetricsResponses
    \cup StreamResponses

LoaderInit ==
  /\ PageInit
  /\ resp \in LoaderResponses
  /\ result = NoResult
  /\ result2 = NoResult

LoaderLoadSession ==
  /\ result = NoResult
  /\ \E rnd \in Draws : result' = LoadSession(resp, loaderUrl, rnd)
  /\ UNCHANGED <<resp, result2>>
  /\ UNCHANGED pageVars

\* loadSession() once more, the provider's answers being the same
LoaderLoadAgain ==
  /\ result # NoResult
  /\ result2 = NoResult
  /\ \E rnd \in Draws : result2' = LoadSession(resp, loaderUrl, rnd)
  /\ UNCHANGED <<resp, result>>
  /\ UNCHANGED pageVars

LoaderNext == LoaderLoadSession \/ LoaderLoadAgain

LoaderSpec == LoaderInit /\ [][LoaderNext]_vars


(***************************************************************************)
(* Claims                                                                  *)
(***************************************************************************)
TimelineLength == sessionData.timelineLength

C2_SetIndexClamps ==
  (lastOp.name = "handleIndexChange" /\ sessionData # NoSession) =>
    currentIndex = Min(Max(lastOp.arg, 0), TimelineLength - 1)

\* C3: a superseded load never overwrites a newer snapshot.  The load that
\* built the held snapshot is never replaced by one that was started earlier.
C3_NoStaleOverwrite ==
  [][(sessionData # NoSession /\ sessionData' # NoSession) =>
       sessionData'.loadId >= sessionData.loadId]_vars

C6_LoadResetsPlayback ==
  (lastOp.name = "completeLoad" /\ lastOp.cause = "installed") =>
    (currentIndex = 0 /\ ~isPlaying)

\* C7: a load whose manifest scan fails is rejected by loadSession, installs
\* nothing, leaves the held snapshot (or its absence) and currentIndex as they
\* were, and sets an error message.
C7_ManifestFatal ==
  [][(lastOp'.name = "completeLoad" /\ lastOp'.scan \in FetchStatus \ {"ok"}) =>
       /\ lastOp'.cause = "manifest"
       /\ sessionData' = sessionData
       /\ currentIndex' = currentIndex
       /\ error' # NoError]_vars

\* the manifest scan of a load failed while a snapshot was held
C7_Witness ==
  /\ lastOp.name = "completeLoad"
  /\ lastOp.scan \in {"non2xx", "invalid", "throws"}
  /\ lastOp.cause = "manifest"
  /\ sessionData # NoSession
  /\ error # NoError

\* C8: only the manifest is fatal.  When the manifest scan succeeds,
\* loadSession returns a snapshot whatever the other endpoints answer.
C8_OnlyManifestFatal ==
  (result # NoResult /\ resp.scan.status = "ok") => ~result.threw

FailedTriples(rsp) ==
  {t \in Triples : /\ \E j \in 1..Len(rsp.scan.files) : rsp.scan.files[j] = t
                   /\ rsp.triple[t].status # "ok"}

WithoutTriple(files, t) == SelectSeq(files, LAMBDA f : f # t)

\* C9: partial-failure tolerance.  When the manifest and the GPS fetch succeed
\* and the fetch of a triple (s,c,a) of the manifest fails, the load succeeds
\* with min(N, 100) frames, in every frame images[c][a] is absent or empty and
\* no detection of the triple is attached, and the frames are what they would
\* be without the triple in the manifest.
C9_PartialFailureTolerance ==
  (/\ result # NoResult
   /\ resp.dashboard = "ok"
   /\ resp.scan.status = "ok"
   /\ resp.gpsCombined.status = "ok") =>
    \A t \in FailedTriples(resp) :
      /\ ~result.threw
      /\ Len(result.timeline) = Min(resp.gpsCombined.n, MaxTimelinePoints)
      /\ \A k \in 1..Len(result.timeline) :
           LET frame == result.timeline[k]
               key == <<t.camera, t.anomalyType>>
           IN /\ key \in DOMAIN frame.images => frame.images[key] = <<>>
              /\ \A x \in 1..Len(frame.detections) : frame.detections[x].triple # t
      /\ \E rnd \in Draws :
           result.timeline =
             CreateEnhancedTimeline(result.gpsData, WithoutTriple(resp.scan.files, t),
                                    resp, rnd)

C11_StridedSubsample ==
  (result # NoResult /\ ~result.threw /\ Len(result.gpsData) > Len(result.timeline)) =>
    LET N == Len(result.gpsData)
        K == Len(result.timeline)
        stride == (N + K - 1) \div K
    IN /\ K > 0
       /\ result.timeline[1].gps <= stride
       /\ result.timeline[K].gps >= (N - 1) - stride

\* C12: ordering invariant.  The frames of a returned timeline are in
\* ascending order of timestamp, and frames of equal timestamp are in the
\* order of their fixes in the trace.
C12_TimelineOrdered ==
  (result # NoResult /\ ~result.threw) =>
    \A i \in 1..(Len(result.timeline) - 1) :
      \/ result.timeline[i].timestamp < result.timeline[i + 1].timestamp
      \/ /\ result.timeline[i].timestamp = result.timeline[i + 1].timestamp
         /\ result.timeline[i].gps < result.timeline[i + 1].gps

\* C13: coordinate non-null.  In every frame of a returned timeline latitude
\* is a number in [-90, 90] and longitude a number in [-180, 180], whatever
\* the raw rows and the GPS source were.
C13_CoordinatesDefined ==
  (result # NoResult /\ ~result.threw) =>
    \A i \in 1..Len(result.timeline) :
      LET frame == result.timeline[i]
      IN /\ frame.latitude.kind = "number"
         /\ frame.latitude.v \in (0 - 90)..90
         /\ frame.longitude.kind = "number"
         /\ frame.longitude.v \in (0 - 180)..180

\* C14: defaulting determinism.  Two loads that meet the same answers of the
\* provider, and do not fall back to the synthetic trace, return the same
\* fixes, the same metrics and the same detections in every frame.
C14_DefaultingDeterminism ==
  (/\ result # NoResult /\ result2 # NoResult
   /\ ~result.threw /\ ~result2.threw
   /\ \A k \in 1..Len(result.gpsData) : result.gpsData[k].source # "synthetic") =>
    /\ result2.gpsData = result.gpsData
    /\ result2.systemMetrics = result.systemMetrics
    /\ Len(result2.timeline) = Len(result.timeline)
    /\ \A i \in 1..Len(result.timeline) :
         result2.timeline[i].detections = result.timeline[i].detections

\* C15: the GPS fallback guarantees a non-empty trace.  When the combined GPS
\* endpoint fails or answers zero rows, a load that returns has fallen back to
\* another source: its trace and its timeline are not empty.
C15_FallbackNonEmpty ==
  (/\ result # NoResult /\ ~result.threw
   /\ (resp.gpsCombined.status # "ok" \/ resp.gpsCombined.n = 0)) =>
    /\ Len(result.gpsData) > 0
    /\ Len(result.timeline) > 0

\* the load generated the synthetic trace: none of the three GPS endpoints
\* answered
SyntheticFallback(rsp) ==
  /\ rsp.gpsCombined.status # "ok"
  /\ rsp.gpsLog.status # "ok"
  /\ rsp.gpsMeta.status # "ok"

\* C16: synthetic GPS is never conflated with real GPS.  In a snapshot built
\* on the synthetic trace every fix is labelled synthetic, in gpsData, in the
\* gpsPoints of every frame and in gpsStats.sources.
C16_SyntheticTagged ==
  (result # NoResult /\ ~result.threw /\ SyntheticFallback(resp)) =>
    /\ \A k \in 1..Len(result.gpsData) : result.gpsData[k].source = "synthetic"
    /\ \A s \in result.gpsStats.sources : s.source = "synthetic"
    /\ \A i \in 1..Len(result.timeline) :
         \A x \in 1..Len(result.timeline[i].gpsPoints) :
           result.timeline[i].gpsPoints[x].source = "synthetic"

\* C17: connected-but-empty is a result, not an error.  When loadSession
\* returns a snapshot whose timeline is empty, the page installs it and
\* reports no error.
C17_EmptyIsResult ==
  (lastOp.name = "completeLoad" /\ lastOp.cause = "empty") =>
    /\ sessionData # NoSession
    /\ sessionData.timelineLength = 0
    /\ error = NoError

\* C18: a failed load leaves no half-updated state.  After a load that did not
\* install a snapshot an error is reported, and the page's serverUrl and the
\* DataLoader's base URL are still the server the held snapshot came from.
C18_FailedLoadKeepsState ==
  (lastOp.name = "completeLoad" /\ lastOp.cause # "installed") =>
    /\ error # NoError
    /\ sessionData # NoSession =>
         /\ sessionData.sessionPath = serverUrl
         /\ sessionData.sessionPath = loaderUrl

\* C19: the tick period is max(50 ms, 1000 ms / speed): every scheduled
\* interval has that period and so never falls below 50 ms.
C19_PeriodFloor ==
  \A t \in timers : t.interval = Max(50, BasePeriodQ \div playbackSpeed)

\* C20: play is a no-op on an empty timeline.  isPlaying is false whenever no
\* snapshot is held or the held timeline has no frame, so play/pause turns
\* playback on only over a timeline of at least one frame.
C20_NoPlayOnEmpty ==
  (sessionData = NoSession \/ sessionData.timelineLength = 0) => ~isPlaying

\* no snapshot is held and the page, its error dismissed, shows the branch
\* without playback controls
C20_Witness ==
  /\ sessionData = NoSession
  /\ lastOp.name = "continueAnyway"
  /\ View = "nodata"
  /\ ~isPlaying

\* C21: navigation and speed changes do not change the play state.
\* handleIndexChange and handleSpeedChange leave isPlaying as it was, and
\* handleSpeedChange leaves currentIndex as it was.
C21_NavigationKeepsPlayState ==
  [][/\ lastOp'.name \in {"handleIndexChange", "handleSpeedChange"} =>
          isPlaying' = isPlaying
     /\ lastOp'.name = "handleSpeedChange" => currentIndex' = currentIndex]_vars

\* the index was moved during playback at a speed other than the initial one
C21_Witness ==
  /\ lastOp.name = "handleIndexChange"
  /\ isPlaying
  /\ currentIndex = lastOp.arg
  /\ currentIndex > 0
  /\ playbackSpeed # 4

\* frame carries a detection of triple t
HasDetectionOf(frame, t) ==
  \E x \in 1..Len(frame.detections) : frame.detections[x].triple = t

\* C22: the synthesizer does not interleave fetching with frame production.
\* Within one load the detections of a triple of the manifest are attached to
\* all frames of the timeline or to none of them.
C22_NoInterleaving ==
  (result # NoResult /\ ~result.threw) =>
    \A j \in 1..Len(resp.scan.files) :
      \A i1, i2 \in 1..Len(result.timeline) :
        HasDetectionOf(result.timeline[i1], resp.scan.files[j])
          <=> HasDetectionOf(result.timeline[i2], resp.scan.files[j])

\* C23: detections are not shared across frames.  A detection row of a triple
\* is attached to at most one frame of a returned timeline.
C23_DetectionsNotShared ==
  (result # NoResult /\ ~result.threw) =>
    \A i1, i2 \in 1..Len(result.timeline) :
      i1 # i2 =>
        \A x1 \in 1..Len(result.timeline[i1].detections) :
          \A x2 \in 1..Len(result.timeline[i2].detections) :
            LET d1 == result.timeline[i1].detections[x1]
                d2 == result.timeline[i2].detections[x2]
            IN ~(d1.triple = d2.triple /\ d1.row = d2.row)

\* the GPS answer whose rows a load normalizes
UsedGpsAnswer(rsp) ==
  IF rsp.gpsCombined.status = "ok" THEN rsp.gpsCombined
  ELSE IF rsp.gpsLog.status = "ok" THEN rsp.gpsLog
  ELSE rsp.gpsMeta

\* the row's combined timestamp when present, otherwise its date and time,
\* each replaced by the sentinel when absent
ExpectedTimestamp(row) ==
  IF row.timestamp.kind # "undefined" THEN row.timestamp.v
  ELSE Stamp(IF row.date.kind # "undefined" THEN row.date.v ELSE 0,
             IF row.time.kind # "undefined" THEN row.time.v ELSE 0)

C29_DateTimeDerived ==
  (result # NoResult /\ ~result.threw) =>
    \A i \in 1..Len(result.timeline) :
      /\ result.timeline[i].date = DateOf(result.timeline[i].timestamp)
      /\ result.timeline[i].time = TimeOf(result.timeline[i].timestamp)

\* the images of triple t among the images a frame holds for t's camera and
\* anomaly type
ImagesOf(frame, t) ==
  LET key == <<t.camera, t.anomalyType>>
  IN IF key \in DOMAIN frame.images
     THEN SelectSeq(frame.images[key], LAMBDA img : img.triple = t)
     ELSE <<>>

\* C25: round-robin sampling.  For frame i and a triple with n > 0 images the
\* frame holds exactly the images i mod n, i mod n + 1, ... of the triple, at
\* least one and at most three, without wrapping past the end of the list;
\* images and fullPaths name the same images in the same order.
C25_RoundRobinSampling ==
  (result # NoResult /\ ~result.threw) =>
    \A k \in 1..Len(result.timeline) :
      LET frame == result.timeline[k]
          i == k - 1
      IN /\ DOMAIN frame.fullPaths = DOMAIN frame.images
         /\ \A key \in DOMAIN frame.images :
              /\ Len(frame.fullPaths[key]) = Len(frame.images[key])
              /\ \A x \in 1..Len(frame.images[key]) :
                   frame.fullPaths[key][x].image = frame.images[key][x]
         /\ \A j \in 1..Len(resp.scan.files) :
              LET t == resp.scan.files[j]
                  r == TripleAnswer(resp, t, i)
                  n == r.nImages
                  first == i % n
                  count == Min(3, n - first)
              IN (r.status = "ok" /\ n > 0) =>
                   /\ count \in 1..3
                   /\ ImagesOf(frame, t) =
                        [x \in 1..count |-> [triple |-> t, index |-> first + x - 1]]

\* the second frame took the last of a triple's two images, and only that one
C25_Witness ==
  /\ result # NoResult
  /\ ~result.threw
  /\ Len(result.timeline) >= 2
  /\ \E j \in 1..Len(resp.scan.files) :
       LET t == resp.scan.files[j]
       IN /\ TripleAnswer(resp, t, 1).status = "ok"
          /\ TripleAnswer(resp, t, 1).nImages = 2
          /\ ImagesOf(result.timeline[2], t) = <<[triple |-> t, index |-> 1]>>

\* isCorrectCamera of the viewer of camera cameraName: cameraConfig is found by
\* name, and the name 4kcam selects the stream IDs from 100
IsCorrectCamera(cameraName, streamId) ==
  IF cameraName = "4kcam" THEN streamId >= 100 ELSE streamId < 100

\* the cameras the manifest of a load names
ManifestCameras(rsp) ==
  {rsp.scan.files[j].camera : j \in 1..Len(rsp.scan.files)}

\* C26: stream-ID inference attributes each detection to its own camera.
\* Every detection attached to a frame for a triple of camera c passes the
\* range test of c's viewer and of no other camera's viewer.
C26_StreamIdOwnCamera ==
  (result # NoResult /\ ~result.threw) =>
    \A k \in 1..Len(result.timeline) :
      \A x \in 1..Len(result.timeline[k].detections) :
        LET d == result.timeline[k].detections[x]
        IN \A c \in ManifestCameras(resp) :
             IsCorrectCamera(c, d.streamId) <=> (c = d.triple.camera)

\* C27: isLoading tracks in-flight loads.  Whenever a loadSessionData call has
\* started and not yet finished, isLoading is true.
C27_LoadingTracksLoads ==
  loads # {} => isLoading

\* C28: the health check and the session load target the same server.  The
\* base URL of the DataLoader equals the page's serverUrl.
C28_SameServer ==
  loaderUrl = serverUrl

\* playback has run to the last frame and stopped
PlaybackDone ==
  /\ sessionData # NoSession
  /\ currentIndex = sessionData.timelineLength - 1
  /\ ~isPlaying
  /\ timers = {}
  /\ playbackIntervalRef = NoTimer

\* C30: playback terminates.  From a state that is Playing on a non-empty
\* timeline, with no further user operation or snapshot replacement and the
\* timer firing, currentIndex reaches the last frame and isPlaying becomes
\* false, and from then on no timer is active and currentIndex stays.
C30_PlaybackTerminates ==
  Playing ~> [](PlaybackDone)

\* playback of a timeline of several frames, started on the first frame, was
\* ended by a tick
C30_Witness ==
  /\ lastOp.name = "tick"
  /\ PlaybackDone
  /\ sessionData.timelineLength > 1


====
